---- MODULE Spec2Model ----
(***************************************************************************)
(* Model of segment_tree<int> from                                         *)
(* "Section-3-Data-Structures/3.3.3 Segment Tree Range Updates.cpp":       *)
(* the constructor with build(), query()/at(), both update() overloads,    *)
(* the recursive internal_query()/internal_update(), and the example       *)
(* main().  Arrays are functions over 0-based indices, as in the source.   *)
(***************************************************************************)
EXTENDS Integers, FiniteSets, Sequences

\* Largest array length explored by the API specification.
MaxN == 3
\* Array elements and update values are drawn from 1..MaxVal.
MaxVal == 2

\* nullv(): std::numeric_limits<int>::min().
nullv == -2147483647 - 1

\* Marker for a cell or field that has not been written since allocation.
\* No element, update value or garbage value of the model equals it, so a
\* cell holds it exactly when nothing was stored there.
Indeterminate == nullv + 1

\* What a read of an uninitialized int may yield: representatives below,
\* inside and above the element values used here (and around 12 for main).
Garbage == {nullv, 2, 9, 13}

Vals == 1..MaxVal

\* merge(a, b): a > b ? a : b.
merge(a, b) == IF a > b THEN a ELSE b

\* A read of tree[i]: an initialized cell yields its value, an
\* uninitialized one any of the garbage values.
ReadCell(c) == IF c = Indeterminate THEN Garbage ELSE {c}

VARIABLES
  len,     \* int len
  init,    \* T *init: the caller's array, 0-based
  tree,    \* T *tree, 4*len cells
  lazy,    \* T *lazy, 4*len cells
  x, y,    \* int x, y: bounds of the call in progress
  val,     \* T val: value of the update in progress
  op,      \* history: the last public call
  ret,     \* history: the value the last query()/at() returned
  ux, uy,  \* history: bounds of the last update() call
  pushed,  \* history: the push-down steps the last call performed
  pc,      \* main(): position in the driver ("api" outside main)
  i,       \* main(): the loop variable
  out      \* main(): the values printed so far

vars == <<len, init, tree, lazy, x, y, val, op, ret, ux, uy, pushed, pc, i, out>>

\* A build that seeds a leaf from the element before its own.
BuildLeafOffByOne(tr, a, node, lo) ==
  [tr EXCEPT ![node] = a[IF lo > 0 THEN lo - 1 ELSE 0]]

\* Line 73: tree[node] = init[lo].
BuildLeaf(tr, a, node, lo) == [tr EXCEPT ![node] = a[lo]]

\* build(node, lo, hi): the set of tree buffers the build can leave, given
\* that tree[node*2] may be read before anything was stored in it.
RECURSIVE build(_, _, _, _, _)
build(tr, a, node, lo, hi) ==
  IF lo = hi
  THEN {BuildLeaf(tr, a, node, lo)}
  ELSE LET mid == (lo + hi) \div 2
           left == build(tr, a, node * 2 + 1, lo, mid)
           both == UNION {build(t, a, node * 2 + 2, mid + 1, hi) : t \in left}
       IN UNION {{[t EXCEPT ![node] = merge(l, r)] :
                    l \in ReadCell(t[node * 2]), r \in ReadCell(t[node * 2 + 1])} :
                 t \in both}

\* The push-down of lines 88-91 and 107-110: the node's pending value
\* overwrites both children's pending values and is cleared on the node.
PushDown(s, node) ==
  LET Lchild == node * 2 + 1
      Rchild == node * 2 + 2
  IN IF s.lazy[node] # nullv
     THEN [s EXCEPT
             !.lazy = [s.lazy EXCEPT ![Lchild] = s.lazy[node],
                                     ![Rchild] = s.lazy[node],
                                     ![node] = nullv],
             !.pushed = s.pushed \cup
                {[node |-> node, lz |-> s.lazy[node],
                  oldL |-> s.lazy[Lchild], oldR |-> s.lazy[Rchild],
                  newL |-> s.lazy[node], newR |-> s.lazy[node],
                  after |-> nullv]}]
     ELSE s

\* A covered-node read that returns the node's value as it was before the
\* pending value is folded into it.
QueryCoveredStale(s, node) ==
  IF s.lazy[node] = nullv
  THEN [s EXCEPT !.ret = s.tree[node]]
  ELSE [s EXCEPT !.tree = [s.tree EXCEPT ![node] = s.lazy[node]],
                 !.ret = s.tree[node]]

\* Lines 84-85: the node lies inside [x, y].
QueryCovered(s, node) ==
  IF s.lazy[node] = nullv
  THEN [s EXCEPT !.ret = s.tree[node]]
  ELSE [s EXCEPT !.tree = [s.tree EXCEPT ![node] = s.lazy[node]],
                 !.ret = s.lazy[node]]

\* Line 82: the node's range misses [qx, qy].
QueryOutside(qx, qy, lo, hi) == qx > hi \/ qy < lo

\* An update that skips only the nodes left of the range.
UpdateOutsideLeftOnly(qx, qy, lo, hi) == qx > hi

\* Line 97: the node's range misses [qx, qy].
UpdateOutside(qx, qy, lo, hi) == qx > hi \/ qy < lo

\* internal_query(node, lo, hi) with x = qx, y = qy; s.ret is the result.
\* The two recursive calls touch disjoint subtrees, so the order in which
\* the arguments of merge() are evaluated does not matter.
RECURSIVE internal_query(_, _, _, _, _, _)
internal_query(s, qx, qy, node, lo, hi) ==
  IF QueryOutside(qx, qy, lo, hi) THEN [s EXCEPT !.ret = nullv]
  ELSE IF qx <= lo /\ hi <= qy THEN QueryCovered(s, node)
  ELSE LET mid == (lo + hi) \div 2
           s1 == PushDown(s, node)
           s2 == internal_query(s1, qx, qy, node * 2 + 1, lo, mid)
           s3 == internal_query(s2, qx, qy, node * 2 + 2, mid + 1, hi)
       IN [s3 EXCEPT !.ret = merge(s2.ret, s3.ret)]

\* internal_update(node, lo, hi) with x = qx, y = qy, val = v.
RECURSIVE internal_update(_, _, _, _, _, _, _)
internal_update(s, qx, qy, v, node, lo, hi) ==
  IF UpdateOutside(qx, qy, lo, hi) THEN s
  ELSE IF lo = hi THEN [s EXCEPT !.tree = [s.tree EXCEPT ![node] = v]]
  ELSE IF qx <= lo /\ hi <= qy
  THEN LET m == merge(s.lazy[node], v)
       IN [s EXCEPT !.tree = [s.tree EXCEPT ![node] = m],
                    !.lazy = [s.lazy EXCEPT ![node] = m]]
  ELSE LET mid == (lo + hi) \div 2
           Lchild == node * 2 + 1
           Rchild == node * 2 + 2
           s1 == PushDown(s, node)
           s2 == internal_update(s1, qx, qy, v, Lchild, lo, mid)
           s3 == internal_update(s2, qx, qy, v, Rchild, mid + 1, hi)
       IN [s3 EXCEPT !.tree = [s3.tree EXCEPT
                                 ![node] = merge(s3.tree[Lchild], s3.tree[Rchild])]]

\* The buffers as one value, with an empty push-down log.
Mem(tr, lz) == [tree |-> tr, lazy |-> lz, ret |-> nullv, pushed |-> {}]

\* query(lo, hi) run on buffers tr, lz of an n-element tree.
query(tr, lz, n, lo, hi) == internal_query(Mem(tr, lz), lo, hi, 0, 0, n - 1)

\* at(idx) == query(idx, idx).
at(tr, lz, n, idx) == query(tr, lz, n, idx, idx)

\* update(lo, hi, v) run on buffers tr, lz of an n-element tree.
update(tr, lz, n, lo, hi, v) == internal_update(Mem(tr, lz), lo, hi, v, 0, 0, n - 1)

\* segment_tree(N, array): allocate, clear lazy, build.
Construct(n, a) ==
  /\ len = n
  /\ init = a
  /\ lazy = [c \in 0..(4 * n - 1) |-> nullv]
  /\ tree \in build([c \in 0..(4 * n - 1) |-> Indeterminate], a, 0, 0, n - 1)
  /\ x = Indeterminate /\ y = Indeterminate /\ val = Indeterminate
  /\ op = "construct" /\ ret = nullv
  /\ ux = Indeterminate /\ uy = Indeterminate
  /\ pushed = {}

\* T.query(lo, hi) as a step of the object.
CallQuery(lo, hi) ==
  LET r == query(tree, lazy, len, lo, hi)
  IN /\ x' = lo /\ y' = hi
     /\ tree' = r.tree /\ lazy' = r.lazy
     /\ ret' = r.ret /\ pushed' = r.pushed
     /\ op' = "query"
     /\ UNCHANGED <<len, init, val, ux, uy>>

\* T.update(lo, hi, v) as a step of the object.
CallUpdate(lo, hi, v) ==
  LET r == update(tree, lazy, len, lo, hi, v)
  IN /\ x' = lo /\ y' = hi /\ val' = v
     /\ tree' = r.tree /\ lazy' = r.lazy
     /\ pushed' = r.pushed
     /\ op' = "update" /\ ret' = nullv
     /\ ux' = lo /\ uy' = hi
     /\ UNCHANGED <<len, init>>

Init ==
  /\ \E n \in 1..MaxN : \E a \in [0..(n - 1) -> Vals] : Construct(n, a)
  /\ pc = "api" /\ i = 0 /\ out = <<>>

\* T.at(idx).
At ==
  /\ \E idx \in 0..(len - 1) : CallQuery(idx, idx)
  /\ UNCHANGED <<pc, i, out>>

\* T.query(lo, hi) over a range of more than one element; query(idx, idx)
\* is the step At takes.
Query ==
  /\ \E lo \in 0..(len - 1) : \E hi \in (lo + 1)..(len - 1) : CallQuery(lo, hi)
  /\ UNCHANGED <<pc, i, out>>

\* T.update(idx, v): x = y = idx; val = v; internal_update(0, 0, len - 1).
UpdateIdx ==
  /\ \E idx \in 0..(len - 1) : \E v \in Vals : CallUpdate(idx, idx, v)
  /\ UNCHANGED <<pc, i, out>>

\* T.update(lo, hi, v) over a range of more than one element;
\* update(idx, idx, v) runs the same code as the step UpdateIdx takes.
UpdateRange ==
  /\ \E lo \in 0..(len - 1) : \E hi \in (lo + 1)..(len - 1) : \E v \in Vals :
        CallUpdate(lo, hi, v)
  /\ UNCHANGED <<pc, i, out>>

Next == At \/ Query \/ UpdateIdx \/ UpdateRange

Spec == Init /\ [][Next]_vars

\* main(): int arr[5] = {6, 4, 1, 8, 10}.
arr == [k \in 0..4 |-> <<6, 4, 1, 8, 10>>[k + 1]]

\* main(): segment_tree<int> T(5, arr), about to enter the first loop.
InitMain ==
  /\ Construct(5, arr)
  /\ pc = "loop1" /\ i = 0 /\ out = <<>>

\* The test of a for loop: i < T.size().
MainLoopTest ==
  /\ pc \in {"loop1", "loop2"}
  /\ pc' = IF i < len THEN (IF pc = "loop1" THEN "at1" ELSE "at2")
                      ELSE (IF pc = "loop1" THEN "update" ELSE "query")
  /\ UNCHANGED <<len, init, tree, lazy, x, y, val, op, ret, ux, uy, pushed, i, out>>

\* The body of a for loop: cout << " " << T.at(i), then i++.
MainLoopBody ==
  /\ pc \in {"at1", "at2"}
  /\ CallQuery(i, i)
  /\ out' = Append(out, ret')
  /\ i' = i + 1
  /\ pc' = IF pc = "at1" THEN "loop1" ELSE "loop2"

\* T.update(2, 4, 12), then the second loop starts at i = 0.
MainUpdate ==
  /\ pc = "update"
  /\ CallUpdate(2, 4, 12)
  /\ pc' = "loop2" /\ i' = 0
  /\ UNCHANGED out

\* cout << T.query(0, 3).
MainQuery ==
  /\ pc = "query"
  /\ CallQuery(0, 3)
  /\ out' = Append(out, ret')
  /\ pc' = "done"
  /\ UNCHANGED i

NextMain == MainLoopTest \/ MainLoopBody \/ MainUpdate \/ MainQuery

SpecMain == InitMain /\ [][NextMain]_vars

(***************************************************************************)
(* Properties.                                                             *)
(***************************************************************************)

\* The valid query/update bounds of the tree: 0 <= lo <= hi < len.
Ranges == {r \in (0..(len - 1)) \X (0..(len - 1)) : r[1] <= r[2]}

\* merge of f[lo], ..., f[hi] in index order.
RECURSIVE MergeAll(_, _, _)
MergeAll(f, lo, hi) ==
  IF lo = hi THEN f[lo] ELSE merge(MergeAll(f, lo, hi - 1), f[hi])

\* What at(k) returns in the current state, for every index k.
AtNow == [k \in 0..(len - 1) |-> at(tree, lazy, len, k).ret]

\* No update() has been called since construction.
NoUpdateYet == ux = Indeterminate

\* The nodes of the subtree rooted at node, which covers [lo, hi].
RECURSIVE Subtree(_, _, _)
Subtree(node, lo, hi) ==
  IF lo = hi THEN {[node |-> node, lo |-> lo, hi |-> hi]}
  ELSE {[node |-> node, lo |-> lo, hi |-> hi]}
       \cup Subtree(node * 2 + 1, lo, (lo + hi) \div 2)
       \cup Subtree(node * 2 + 2, (lo + hi) \div 2 + 1, hi)

\* merge of the tree values of the leaves below node.
RECURSIVE LeafMerge(_, _, _)
LeafMerge(node, lo, hi) ==
  IF lo = hi THEN tree[node]
  ELSE merge(LeafMerge(node * 2 + 1, lo, (lo + hi) \div 2),
             LeafMerge(node * 2 + 2, (lo + hi) \div 2 + 1, hi))

\* C1: in every reachable state, query(lo, hi) returns the merge of the
\* values at(k) returns in that state for k in lo..hi.
C1_QueryIsMergeOfAt ==
  \A r \in Ranges :
    query(tree, lazy, len, r[1], r[2]).ret = MergeAll(AtNow, r[1], r[2])

\* C2: update(lo, hi, v) leaves every element k of lo..hi at
\* max(at(k) before the update, v).
C2_UpdateRaises ==
  [][op' = "update" =>
       \A k \in x'..y' :
         at(tree', lazy', len, k).ret = merge(at(tree, lazy, len, k).ret, val')]_vars

\* C3: right after construction from A, query(0, N-1) returns the merge of
\* all elements of A.
C3_FullQueryAfterBuild ==
  op = "construct" =>
    query(tree, lazy, len, 0, len - 1).ret = MergeAll(init, 0, len - 1)

\* C4: as long as no update has been made, at(k) returns A[k] for every k,
\* whatever queries were made before.
C4_AtAfterBuild ==
  NoUpdateYet => \A k \in 0..(len - 1) : at(tree, lazy, len, k).ret = init[k]

\* C4 witness: an at() call on the last element of a three-element tree,
\* made after other reads and before any update.
C4_Witness ==
  /\ NoUpdateYet /\ op = "query" /\ len = 3
  /\ x = 2 /\ y = 2 /\ ret = init[2] /\ init[2] # init[0]

\* C5: a query inside the range of the last update returns at least the
\* value of that update.
C5_QueryAfterUpdate ==
  (op = "query" /\ ~NoUpdateYet /\ ux <= x /\ y <= uy) => ret >= val

\* C6: an update does not change the result of any query over a range
\* disjoint from the updated one.
C6_Locality ==
  [][op' = "update" =>
       \A r \in Ranges :
         (r[2] < x' \/ y' < r[1]) =>
           query(tree', lazy', len, r[1], r[2]).ret
             = query(tree, lazy, len, r[1], r[2]).ret]_vars

\* C6 witness: update(2, 2, v) on a three-element tree was made while the
\* node covering [0, 1] held a pending value.
C6_Witness ==
  /\ op = "update" /\ len = 3 /\ x = 2 /\ y = 2
  /\ lazy[1] # nullv /\ tree[1] = lazy[1]

\* C7: repeating the query that was just made returns the value it returned.
C7_IdempotentRead ==
  op = "query" => query(tree, lazy, len, x, y).ret = ret

\* C7 witness: the query just made pushed a pending value down and read it
\* from a child.
C7_Witness ==
  /\ op = "query" /\ pushed # {} /\ ret # nullv
  /\ \E e \in pushed : ret = e.lz

\* C8: main() prints 6 4 12 12 12 in its second loop and then 12.
C8_MainOutput ==
  pc = "done" => SubSeq(out, 6, 11) = <<6, 4, 12, 12, 12, 12>>

\* C9: every node with no pending value in its subtree holds the merge of
\* the tree values of the leaves in its range.
C9_TreeInvariant ==
  \A n \in Subtree(0, 0, len - 1) :
    (\A m \in Subtree(n.node, n.lo, n.hi) : lazy[m.node] = nullv)
      => tree[n.node] = LeafMerge(n.node, n.lo, n.hi)

\* C10: every push-down of the last call merged the node's pending value
\* into each child's pending value and cleared the node's own.
C10_PushDownMerges ==
  \A e \in pushed :
    /\ e.newL = merge(e.oldL, e.lz)
    /\ e.newR = merge(e.oldR, e.lz)
    /\ e.after = nullv

====
